---- MODULE Spec2Model ----
(***************************************************************************)
(* roster-anki-flash-cards.py: a saved "Instructor Class List" page is     *)
(* read into student records (read_roster), each photo is copied to a      *)
(* name derived from the student (rename_photos) and one Anki note per     *)
(* student is written to an archive (make_flashcards).                     *)
(*                                                                         *)
(* Python strings are sequences of one-character strings, so that split,   *)
(* strip, lower, replace, join and unquote are computed as Python          *)
(* computes them.                                                          *)
(***************************************************************************)
EXTENDS Integers, Sequences, FiniteSets, TLC

\* ------------------------------------------------------------ bounds

\* Longest class list (number of tr.pdfClassListEntry rows) explored.
MaxRows == 2

\* Values of the per-process secret that keys Python's str hash.
MaxSeed == 2

\* The program is run once, or run and then run again.
Runs == {1, 2}

\* ------------------------------------------------------- Python str

Whitespace == {" ", "\n", "\t"}

Upper == <<"A","B","C","D","E","F","G","H","I","J","K","L","M",
           "N","O","P","Q","R","S","T","U","V","W","X","Y","Z">>

Lowercase == <<"a","b","c","d","e","f","g","h","i","j","k","l","m",
               "n","o","p","q","r","s","t","u","v","w","x","y","z">>

\* str.lower() of one character.
LowerChar(c) ==
  IF \E i \in DOMAIN Upper : Upper[i] = c
  THEN Lowercase[CHOOSE i \in DOMAIN Upper : Upper[i] = c]
  ELSE c

\* s.lower()
lower(s) == [i \in DOMAIN s |-> LowerChar(s[i])]

\* s.replace(old, new) for a one-character old; new is any string.
RECURSIVE replace(_, _, _)
replace(s, old, new) ==
  IF s = <<>> THEN <<>>
  ELSE (IF Head(s) = old THEN new ELSE <<Head(s)>>) \o replace(Tail(s), old, new)

\* s.lstrip(), s.rstrip(), s.strip() with no argument: whitespace goes.
RECURSIVE lstrip(_)
lstrip(s) ==
  IF s # <<>> /\ Head(s) \in Whitespace THEN lstrip(Tail(s)) ELSE s

RECURSIVE rstrip(_)
rstrip(s) ==
  IF s # <<>> /\ s[Len(s)] \in Whitespace
  THEN rstrip(SubSeq(s, 1, Len(s) - 1)) ELSE s

strip(s) == rstrip(lstrip(s))

\* s.split(sep) for a one-character sep: every occurrence splits, empty
\* pieces are kept, and the result always has at least one piece.
RECURSIVE split(_, _)
split(s, sep) ==
  IF \A i \in DOMAIN s : s[i] # sep THEN <<s>>
  ELSE LET i == CHOOSE k \in DOMAIN s :
                  s[k] = sep /\ \A j \in 1..(k - 1) : s[j] # sep
       IN <<SubSeq(s, 1, i - 1)>> \o split(SubSeq(s, i + 1, Len(s)), sep)

\* s.split() with no argument: runs of whitespace separate the pieces and
\* no piece is empty.
RECURSIVE split_ws(_)
split_ws(s) ==
  LET t == lstrip(s) IN
  IF t = <<>> THEN <<>>
  ELSE IF \A i \in DOMAIN t : t[i] \notin Whitespace THEN <<t>>
  ELSE LET i == CHOOSE k \in DOMAIN t :
                  t[k] \in Whitespace /\ \A j \in 1..(k - 1) : t[j] \notin Whitespace
       IN <<SubSeq(t, 1, i - 1)>> \o split_ws(SubSeq(t, i + 1, Len(t)))

\* sep.join(parts)
RECURSIVE join(_, _)
join(sep, parts) ==
  IF parts = <<>> THEN <<>>
  ELSE IF Len(parts) = 1 THEN parts[1]
  ELSE parts[1] \o sep \o join(sep, Tail(parts))

\* parts[::-1]
reversed(parts) == [i \in DOMAIN parts |-> parts[Len(parts) + 1 - i]]

\* sub in s
contains(s, sub) ==
  \E i \in 0..(Len(s) - Len(sub)) : SubSeq(s, i + 1, i + Len(sub)) = sub

\* ------------------------------------------------- urllib.parse.unquote

HexDigits == <<"0","1","2","3","4","5","6","7","8","9","A","B","C","D","E","F">>

IsHex(c) ==
  \E i \in DOMAIN HexDigits : HexDigits[i] = c \/ LowerChar(HexDigits[i]) = c

HexVal(c) ==
  IF \E i \in DOMAIN HexDigits : HexDigits[i] = c
  THEN (CHOOSE i \in DOMAIN HexDigits : HexDigits[i] = c) - 1
  ELSE (CHOOSE i \in DOMAIN HexDigits : LowerChar(HexDigits[i]) = c) - 1

\* The printable ASCII characters from code 32 (space) to 126 (~); code 96,
\* the grave accent, is spelled out.
Ascii == <<" ","!","\"","#","$","%","&","'","(",")","*","+",",","-",".","/",
           "0","1","2","3","4","5","6","7","8","9",":",";","<","=",">","?",
           "@","A","B","C","D","E","F","G","H","I","J","K","L","M","N","O",
           "P","Q","R","S","T","U","V","W","X","Y","Z","[","\\","]","^","_",
           "grave","a","b","c","d","e","f","g","h","i","j","k","l","m","n","o",
           "p","q","r","s","t","u","v","w","x","y","z","{","|","}","~">>

\* chr(n) and ord(c) on printable ASCII.
chr(n) == Ascii[n - 31]

ord(c) == 31 + (CHOOSE i \in DOMAIN Ascii : Ascii[i] = c)

\* unquote(s): each %XX with two hexadecimal digits becomes the character
\* with that code; a % not followed by two hexadecimal digits stays.  Only
\* escapes of printable ASCII are decoded here: the image references
\* explored hold no others.
RECURSIVE unquote(_)
unquote(s) ==
  IF s = <<>> THEN <<>>
  ELSE IF /\ Head(s) = "%"
          /\ Len(s) >= 3
          /\ IsHex(s[2])
          /\ IsHex(s[3])
          /\ 16 * HexVal(s[2]) + HexVal(s[3]) \in 32..126
       THEN <<chr(16 * HexVal(s[2]) + HexVal(s[3]))>> \o unquote(SubSeq(s, 4, Len(s)))
       ELSE <<Head(s)>> \o unquote(Tail(s))

\* ---------------------------------------------- literals of the program

DefaultInput == <<"I","n","s","t","r","u","c","t","o","r"," ","C","l","a","s","s"," ","L","i","s","t",".","h","t","m","l">>

DefaultOutput == <<"a","n","k","i",".","a","p","k","g">>

ExpectedTitle == <<"I","n","s","t","r","u","c","t","o","r"," ","C","l","a","s","s"," ","L","i","s","t">>

ListMarker == <<"@","l","i","s","t","s">>

K_photo == <<"p","h","o","t","o">>

K_advisor == <<"a","d","v","i","s","o","r">>

K_emailaddress == <<"e","m","a","i","l","a","d","d","r","e","s","s">>

K_email == <<"e","m","a","i","l">>

K_name == <<"n","a","m","e">>

K_lname == <<"l","n","a","m","e">>

K_fname == <<"f","n","a","m","e">>

K_primarymajor == <<"p","r","i","m","a","r","y","m","a","j","o","r">>

K_major == <<"m","a","j","o","r">>

K_classification == <<"c","l","a","s","s","i","f","i","c","a","t","i","o","n">>

K_year == <<"y","e","a","r">>

K_photo_renamed == <<"p","h","o","t","o","_","r","e","n","a","m","e","d">>

\* ---------------------------------------------------- Python values

\* A value held by a record or found in the page: a str (a NavigableString
\* is one) has no tag name and its text as only content; a Tag has its
\* name and its text children.
Str(s) == [name |-> <<>>, contents |-> <<s>>]

Tag(n, children) == [name |-> n, contents |-> children]

IsStr(v) == v.name = <<>>

text(v) == v.contents[1]

\* str(v), as an f-string renders it.
render(v) ==
  IF IsStr(v) THEN text(v)
  ELSE <<"<">> \o v.name \o <<">">> \o join(<<>>, v.contents) \o <<"<","/">> \o v.name \o <<">">>

\* SimpleNamespace(): attribute names to values.
SimpleNamespace == <<>>

has(o, k) == k \in DOMAIN o

\* o.k = v, o.__dict__[k] = v
setattr(o, k, v) ==
  [x \in DOMAIN o \cup {k} |-> IF x = k THEN v ELSE o[x]]

\* Exceptions: the type and, for an AttributeError, the attribute.
NoError == [type |-> "None", what |-> <<>>]

Raise(t, w) == [type |-> t, what |-> w]

Fail(o, t, w) == [err |-> Raise(t, w), o |-> o]

Ok(o) == [err |-> NoError, o |-> o]

\* ------------------------------------------- read_roster, one row

\* x.name != "br"
NotBr(x) == x.name # <<"b","r">>

\* t.contents[0].strip().lower().replace(":", "").replace(" ", "")
tag_key(t) == replace(replace(lower(strip(t)), ":", <<>>), " ", <<>>)

\* for i,t in enumerate(tags): o.__dict__[key of t] = data[i]
RECURSIVE set_tags(_, _, _, _)
set_tags(o, tags, data, i) ==
  IF i > Len(tags) THEN Ok(o)
  ELSE IF IsStr(tags[i]) THEN Fail(o, "AttributeError", <<"c","o","n","t","e","n","t","s">>)
  ELSE IF tags[i].contents = <<>> THEN Fail(o, "IndexError", <<>>)
  ELSE IF i > Len(data) THEN Fail(o, "IndexError", <<>>)
  ELSE set_tags(setattr(o, tag_key(tags[i].contents[1]), data[i]), tags, data, i + 1)

\* Lines 139-155: the photo reference and the label/value pairs of a row.
\* A row is [img: the src of its img elements, tds: its td elements, each
\* the sequence of its children].
extract(r) ==
  IF r.img = <<>> THEN Fail(SimpleNamespace, "AttributeError", <<"a","t","t","r","s">>)
  ELSE IF Len(r.tds) < 2 THEN Fail(SimpleNamespace, "IndexError", <<>>)
  ELSE LET o    == setattr(SimpleNamespace, K_photo, Str(unquote(r.img[1])))
           info == SelectSeq(r.tds[2], NotBr)
           tags == [k \in 1..((Len(info) + 1) \div 2) |-> info[2 * k - 1]]
           data == [k \in 1..(Len(info) \div 2) |-> info[2 * k]]
       IN set_tags(o, tags, data, 1)

\* norm_advisor with a default for a record without the attribute, as
\* getattr(o, "advisor", "") would give: C9 is checked against it.
norm_advisor_default(o) ==
  IF ~has(o, K_advisor) THEN Ok(setattr(o, K_advisor, Str(<<>>)))
  ELSE IF ~IsStr(o[K_advisor]) THEN Fail(o, "TypeError", <<>>)
  ELSE Ok(setattr(o, K_advisor,
                  Str(join(<<" ">>, reversed(split(text(o[K_advisor]), ","))))))

\* Line 156: o.advisor = " ".join(o.advisor.split(",")[::-1])
norm_advisor(o) ==
  IF ~has(o, K_advisor) THEN Fail(o, "AttributeError", K_advisor)
  ELSE IF ~IsStr(o[K_advisor]) THEN Fail(o, "TypeError", <<>>)
  ELSE Ok(setattr(o, K_advisor,
                  Str(join(<<" ">>, reversed(split(text(o[K_advisor]), ","))))))

\* Line 157: o.email = o.emailaddress.contents[0]
norm_email(o) ==
  IF ~has(o, K_emailaddress) THEN Fail(o, "AttributeError", K_emailaddress)
  ELSE IF IsStr(o[K_emailaddress]) THEN Fail(o, "AttributeError", <<"c","o","n","t","e","n","t","s">>)
  ELSE IF o[K_emailaddress].contents = <<>> THEN Fail(o, "IndexError", <<>>)
  ELSE Ok(setattr(o, K_email, Str(o[K_emailaddress].contents[1])))

\* Lines 158-160: lname, fname, and name as the pieces reversed.
norm_name(o) ==
  IF ~has(o, K_name) THEN Fail(o, "AttributeError", K_name)
  ELSE IF ~IsStr(o[K_name]) THEN Fail(o, "TypeError", <<>>)
  ELSE LET parts == split(text(o[K_name]), ",") IN
       IF Len(parts) < 2 THEN Fail(o, "IndexError", <<>>)
       ELSE Ok(setattr(setattr(setattr(o,
                 K_lname, Str(parts[1])),
                 K_fname, Str(parts[2])),
                 K_name, Str(join(<<" ">>, reversed(parts)))))

\* Line 161: o.major = o.primarymajor.split()[0]
norm_major(o) ==
  IF ~has(o, K_primarymajor) THEN Fail(o, "AttributeError", K_primarymajor)
  ELSE IF ~IsStr(o[K_primarymajor]) THEN Fail(o, "TypeError", <<>>)
  ELSE LET parts == split_ws(text(o[K_primarymajor])) IN
       IF parts = <<>> THEN Fail(o, "IndexError", <<>>)
       ELSE Ok(setattr(o, K_major, Str(parts[1])))

\* Line 162: o.year = o.classification
norm_year(o) ==
  IF ~has(o, K_classification) THEN Fail(o, "AttributeError", K_classification)
  ELSE Ok(setattr(o, K_year, o[K_classification]))

\* Lines 156-162 in order; the first statement that raises ends them.
normalize(o) ==
  LET a == norm_advisor(o) IN
  IF a.err # NoError THEN a ELSE
  LET e == norm_email(a.o) IN
  IF e.err # NoError THEN e ELSE
  LET n == norm_name(e.o) IN
  IF n.err # NoError THEN n ELSE
  LET m == norm_major(n.o) IN
  IF m.err # NoError THEN m ELSE
  norm_year(m.o)

\* ---------------------------------------------------- rename_photos

\* Lines 170-171: f"photo-{r.lname.lower()}-{r.fname.lower()}.jpg" with
\* every space replaced by a hyphen.
newfnam(r) ==
  replace(<<"p","h","o","t","o","-">> \o lower(text(r[K_lname])) \o <<"-">> \o lower(text(r[K_fname])) \o <<".","j","p","g">>,
          " ", <<"-">>)

\* copy that leaves a file already at dst alone: C10 is checked against it.
copy_keep_existing(fs, src, dst) ==
  [p \in DOMAIN fs \cup {dst} |-> IF p = dst /\ dst \notin DOMAIN fs THEN fs[src] ELSE fs[p]]

\* shutil.copy(src, dst) on the files of the working directory, a function
\* from path to content.
copy(fs, src, dst) ==
  [p \in DOMAIN fs \cup {dst} |-> IF p = dst THEN fs[src] ELSE fs[p]]

\* -------------------------------------------------- make_flashcards

\* hash(s) of a str: CPython keys it with a secret drawn when the process
\* starts (PYTHONHASHSEED unset) and gives 0 for the empty string.  The
\* keyed SipHash is not reproduced: the value is a keyed mix of the
\* characters, narrowed to HashBits bits and signed as Py_hash_t is.
HashBits == 16

RECURSIVE HashMix(_, _)
HashMix(h, s) ==
  IF s = <<>> THEN h
  ELSE HashMix((h * 31 + ord(Head(s))) % (2 ^ HashBits), Tail(s))

hash(secret, s) ==
  IF s = <<>> THEN 0
  ELSE HashMix((secret * 7919) % (2 ^ HashBits), s) - 2 ^ (HashBits - 1)

\* h & 0x7fffffff on a Python int: the low 31 bits of its two's complement,
\* for h of at most 32 bits.
Mask31 == 2147483647

BitAnd31(h) == IF h >= 0 THEN h ELSE (h + Mask31) + 1

\* Line 177
compute_model_id(secret, name) == BitAnd31(hash(secret, name))

\* genanki.guid_for(*values): a digest (SHA-256, the first 8 bytes, in
\* base 91) of the values joined by "__".  The digest is kept as the text
\* it is taken of: two guids are equal exactly when the joined texts are.
guid_for(values) == [sha256 |-> join(<<"_","_">>, values)]

\* The guid of genanki.Note, taken of every field: C5 is checked against it.
guid_of_all_fields(fields) == guid_for(fields)

\* MyNote.guid, lines 85-88
guid(fields) == guid_for(<<fields[1], fields[2]>>)

\* Lines 201-205
answer(o) ==
  text(o[K_name]) \o <<"<","b","r","/",">","\n">> \o
  render(o[K_year]) \o <<" ","/"," ">> \o text(o[K_major]) \o <<"<","b","r",">","\n">> \o
  render(o[K_email]) \o <<"<","b","r",">","\n">> \o
  <<"a","d","v","i","s","o","r",":"," ">> \o text(o[K_advisor]) \o <<"<","b","r",">","\n">>

\* Line 206
prompt(name) == name \o <<"<","b","r","/",">">>

\* Line 210
photo_embed(o) == <<"<","i","m","g"," ","s","r","c","=","\"">> \o text(o[K_photo_renamed]) \o <<"\"",">">>

\* Lines 207-211: the note of one record.
MyNote(name, o) ==
  LET fields == <<prompt(name), photo_embed(o), answer(o)>>
  IN [fields |-> fields, guid |-> guid(fields)]

\* ------------------------------------------------ the saved page

\* <a>s</a>, <b>label</b>, <br>
Anchor(s) == Tag(<<"a">>, <<s>>)

Bold(label) == Tag(<<"b">>, <<label>>)

Br == Tag(<<"b","r">>, <<>>)

RECURSIVE Flatten(_)
Flatten(ss) == IF ss = <<>> THEN <<>> ELSE Head(ss) \o Flatten(Tail(ss))

\* A class-list row as the page has it: the photo, then the student's
\* data as <b>Label: </b>value<br>, here without the labels whose keys
\* are in omit.
Student(src, name, advisor, omit) ==
  LET all == << <<Bold(<<"N","a","m","e",":"," ">>), Str(name), Br>>,
                <<Bold(<<"E","m","a","i","l"," ","A","d","d","r","e","s","s",":"," ">>), Anchor(<<"a","@","u",".","e","d","u">>), Br>>,
                <<Bold(<<"C","l","a","s","s","i","f","i","c","a","t","i","o","n",":"," ">>), Str(<<"J","u","n","i","o","r">>), Br>>,
                <<Bold(<<"P","r","i","m","a","r","y"," ","M","a","j","o","r",":"," ">>), Str(<<"P","h","y","s","i","c","s"," ","B","A","/","M","A">>), Br>>,
                <<Bold(<<"A","d","v","i","s","o","r",":"," ">>), Str(advisor), Br>> >>
      Kept(f) == tag_key(f[1].contents[1]) \notin omit
  IN [img |-> <<src>>, tds |-> << <<>>, Flatten(SelectSeq(all, Kept)) >>]

\* The photos saved beside the page.
PhotoA == <<"f","/","a"," ","b",".","j","p","g">>

PhotoC == <<"f","/","c",".","j","p","g">>

SavedPhotos == (PhotoA :> "jpeg of A") @@ (PhotoC :> "jpeg of C")

\* Rows that read_roster accepts; the last one refers to a photo that
\* was not saved.
GoodRows ==
  { Student(<<"f","/","a","%","2","0","b",".","j","p","g">>, <<"S","m","i","t","h",","," ","A","l","i","c","e">>, <<"J","o","n","e","s",","," ","B","o","b">>, {}),
    Student(<<"f","/","c",".","j","p","g">>, <<"D","e","l","a","C","r","u","z",","," ","M","a","r","i","a">>, <<"J","o","n","e","s",","," ","B","o","b",","," ","C","a","r","o","l">>, {}),
    Student(<<"f","/","c",".","j","p","g">>, <<"S","M","I","T","H",","," ","A","l","i","c","e">>, <<"J","o","n","e","s",","," ","B","o","b",","," ","C","a","r","o","l">>, {}),
    Student(<<"f","/","x",".","j","p","g">>, <<"D","e"," ","L","a"," ","C","r","u","z",",","A","n","a">>, <<"J","o","n","e","s",",","B","o","b">>, {}) }

\* Rows with one label missing or two, a name without a comma, no photo
\* element.
BadRows ==
  { Student(<<"f","/","a","%","2","0","b",".","j","p","g">>, <<"S","m","i","t","h",","," ","A","l","i","c","e">>, <<"J","o","n","e","s",","," ","B","o","b">>, {key}) :
      key \in {K_name, K_emailaddress, K_classification, K_primarymajor, K_advisor} }
  \cup { Student(<<"f","/","c",".","j","p","g">>, <<"D","e","l","a","C","r","u","z",","," ","M","a","r","i","a">>, <<"J","o","n","e","s",","," ","B","o","b">>, {K_classification, K_emailaddress}),
         Student(<<"f","/","c",".","j","p","g">>, <<"C","h","e","r">>, <<"J","o","n","e","s",","," ","B","o","b">>, {}),
         [img |-> <<>>, tds |-> << <<>>, <<>> >>] }

Rows == GoodRows \cup BadRows

Readable(r) == extract(r).err = NoError /\ normalize(extract(r).o).err = NoError

\* The class lists of at most n rows.  read_roster stops at the first row
\* it cannot read, so a list holds such a row only as its last.
RECURSIVE RowSeqs(_)
RowSeqs(n) ==
  IF n = 0 THEN {<<>>}
  ELSE LET shorter == RowSeqs(n - 1)
       IN shorter \cup
          { Append(s, r) : s \in { x \in shorter : Len(x) = n - 1 /\ \A i \in DOMAIN x : Readable(x[i]) },
                           r \in Rows }

Course1 == Anchor(<<"P","H","Y","S","-","1","@","l","i","s","t","s",".","u","p","e","n","n",".","e","d","u">>)

Course2 == Anchor(<<"M","A","T","H","-","2","@","l","i","s","t","s",".","u","p","e","n","n",".","e","d","u">>)

Help == Anchor(<<"H","e","l","p">>)

\* The hyperlinks of the page, in document order.
AnchorLists ==
  { <<>>, <<Help>>, <<Help, Course1>>, <<Course1, Course2>> }

\* The title element's string, if the page has a title.
Titles == { <<<<"\n"," ","I","n","s","t","r","u","c","t","o","r"," ","C","l","a","s","s"," ","L","i","s","t"," ","\n">>>>, <<<<"C","l","a","s","s"," ","S","e","a","r","c","h">>>>, <<>> }

\* str(x.contents) for an element whose children are strings.
repr_contents(c) ==
  <<"[">> \o join(<<","," ">>, [i \in DOMAIN c |-> <<"'">> \o c[i] \o <<"'">>]) \o <<"]">>

\* Line 131: "@lists" in str(x.contents)
IsCourseLink(x) == contains(repr_contents(x.contents), ListMarker)

\* A page is [title, links, tables: the table.ClassListTable elements, each
\* the sequence of its tr.pdfClassListEntry rows].  A page that read_roster
\* rejects before it reaches the table is listed with an empty table.
HeaderOK(ti, ls) ==
  /\ ti # <<>>
  /\ strip(ti[1]) = ExpectedTitle
  /\ \E i \in DOMAIN ls : IsCourseLink(ls[i])

Pages ==
  { [title |-> ti, links |-> ls, tables |-> <<rs>>] :
      ti \in Titles, ls \in AnchorLists,
      rs \in RowSeqs(MaxRows) }

Docs ==
  { d \in Pages : HeaderOK(d.title, d.links) \/ d.tables[1] = <<>> }
  \cup { [title |-> ti, links |-> ls, tables |-> <<>>] :
           ti \in { x \in Titles : HeaderOK(x, <<Course1>>) },
           ls \in AnchorLists }

\* Command lines: no option, or --input, --output and --verbose.
ArgSets ==
  { [input |-> <<>>, output |-> <<>>, verbose |-> FALSE],
    [input |-> <<"r",".","h","t","m","l">>, output |-> <<"o",".","a","p","k","g">>, verbose |-> TRUE] }

\* Where the page was saved.
HtmlPaths == { DefaultInput, <<"r",".","h","t","m","l">> }

\* ------------------------------------------------------ the program

VARIABLES
  pc,           \* where the process is: start, open, course, table, row,
                \* normalize, rename, make, note, write, done, failed
  err,          \* the exception that ended the process
  run,          \* 1 for the first run of the program, 2 for the second
  same,         \* the second run reads the page the first one read
  prev,         \* what the first run left: its identifiers and the archives
  args,         \* the command line
  html,         \* the saved pages on disk, by path
  files,        \* the photos on disk, by path
  archive,      \* the archives on disk, by path
  secret,       \* the key of this process's str hash, 0 until it is read
  ifnam, ofnam, verbose,
  soup, course_name, rows, roster,
  k,            \* the index of the loop the process is in
  o,            \* the record of the row being read
  model_id, deck, media_files

env == <<run, same, prev, args, html, files, archive>>

proc == <<secret, ifnam, ofnam, verbose, soup, course_name, rows, roster, k, o,
          model_id, deck, media_files>>

vars == <<pc, err, env, proc>>

NoSoup == [title |-> <<>>, links |-> <<>>, tables |-> <<>>]

NoDeck == [deck_id |-> 0, name |-> <<>>, notes |-> <<>>]

NoRun == [done |-> FALSE, model_id |-> 0, deck |-> NoDeck, media_files |-> <<>>,
          archive |-> <<>>]

\* A process that has not run a statement yet.
Fresh ==
  /\ pc = "start"
  /\ err = NoError
  /\ secret = 0
  /\ ifnam = <<>>
  /\ ofnam = <<>>
  /\ verbose = FALSE
  /\ soup = NoSoup
  /\ course_name = <<>>
  /\ rows = <<>>
  /\ roster = <<>>
  /\ k = 0
  /\ o = SimpleNamespace
  /\ model_id = 0
  /\ deck = NoDeck
  /\ media_files = <<>>

Init ==
  /\ Fresh
  /\ run = 1
  /\ same = FALSE
  /\ prev = NoRun
  /\ args \in ArgSets
  /\ \E path \in HtmlPaths, d \in Docs : html = (path :> d)
  /\ files = SavedPhotos
  /\ archive = <<>>

\* An exception that is recorded and after which the archive is written
\* with what the run holds: C3 is checked against it.
Abort_WriteAnyway(e) ==
  /\ pc' = "write"
  /\ err' = e
  /\ UNCHANGED <<env, proc>>

\* An uncaught exception ends the process.
Abort(e) ==
  /\ pc' = "failed"
  /\ err' = e
  /\ UNCHANGED <<env, proc>>

\* Lines 93-117
Argparse ==
  /\ pc = "start"
  /\ verbose' = args.verbose
  /\ ifnam' = IF args.input = <<>> THEN DefaultInput ELSE args.input
  /\ ofnam' = IF args.output = <<>> THEN DefaultOutput ELSE args.output
  /\ pc' = "open"
  /\ UNCHANGED <<err, env, secret, soup, course_name, rows, roster, k, o,
                 model_id, deck, media_files>>

\* Lines 121-128: the page is opened and parsed and its title checked.
ReadOpen ==
  /\ pc = "open"
  /\ IF ifnam \notin DOMAIN html THEN Abort(Raise("FileNotFoundError", ifnam))
     ELSE IF html[ifnam].title = <<>> THEN Abort(Raise("AttributeError", <<"s","t","r","i","n","g">>))
     ELSE IF strip(html[ifnam].title[1]) # ExpectedTitle THEN Abort(Raise("AssertionError", <<>>))
     ELSE /\ soup' = html[ifnam]
          /\ roster' = <<>>
          /\ pc' = "course"
          /\ UNCHANGED <<err, env, secret, ifnam, ofnam, verbose, course_name,
                         rows, k, o, model_id, deck, media_files>>

\* Lines 130-131: the hyperlinks that hold the mailing-list marker.
course_links(s) == SelectSeq(s.links, IsCourseLink)

\* Lines 130-133: the first such link names the course.
ReadCourse ==
  /\ pc = "course"
  /\ IF course_links(soup) = <<>> THEN Abort(Raise("IndexError", <<>>))
     ELSE /\ course_name' = split(course_links(soup)[1].contents[1], "@")[1]
          /\ pc' = "table"
          /\ UNCHANGED <<err, env, secret, ifnam, ofnam, verbose, soup,
                         rows, roster, k, o, model_id, deck, media_files>>

\* Where the process goes once the rows are read, and once the photos
\* are copied: a for loop over no record runs no statement.
AfterRead(n) == IF n = 0 THEN "make" ELSE "rename"

\* Lines 135-136
ReadTable ==
  /\ pc = "table"
  /\ IF soup.tables = <<>> THEN Abort(Raise("AttributeError", <<"f","i","n","d","_","a","l","l">>))
     ELSE /\ rows' = soup.tables[1]
          /\ k' = 1
          /\ pc' = IF rows' = <<>> THEN AfterRead(0) ELSE "row"
          /\ UNCHANGED <<err, env, secret, ifnam, ofnam, verbose, soup,
                         course_name, roster, o, model_id, deck, media_files>>

\* Lines 139-155 for row k
ExtractRow ==
  /\ pc = "row"
  /\ LET x == extract(rows[k]) IN
     IF x.err # NoError THEN Abort(x.err)
     ELSE /\ o' = x.o
          /\ pc' = "normalize"
          /\ UNCHANGED <<err, env, secret, ifnam, ofnam, verbose, soup,
                         course_name, rows, roster, k, model_id, deck, media_files>>

\* Lines 156-164 for row k
NormalizeRow ==
  /\ pc = "normalize"
  /\ LET x == normalize(o) IN
     IF x.err # NoError THEN Abort(x.err)
     ELSE /\ roster' = Append(roster, x.o)
          /\ o' = SimpleNamespace
          /\ k' = IF k < Len(rows) THEN k + 1 ELSE 1
          /\ pc' = IF k < Len(rows) THEN "row" ELSE AfterRead(Len(roster'))
          /\ UNCHANGED <<err, env, secret, ifnam, ofnam, verbose, soup,
                         course_name, rows, model_id, deck, media_files>>

\* Lines 169-174 for record k
RenamePhoto ==
  /\ pc = "rename"
  /\ LET r == roster[k]
         oldfnam == text(r[K_photo])
     IN
     IF ~IsStr(r[K_photo]) THEN Abort(Raise("TypeError", <<>>))
     ELSE IF oldfnam \notin DOMAIN files THEN Abort(Raise("FileNotFoundError", oldfnam))
     ELSE IF oldfnam = newfnam(r) THEN Abort(Raise("SameFileError", oldfnam))
     ELSE /\ files' = copy(files, oldfnam, newfnam(r))
          /\ roster' = [roster EXCEPT ![k] = setattr(r, K_photo_renamed, Str(newfnam(r)))]
          /\ k' = IF k < Len(roster) THEN k + 1 ELSE 1
          /\ pc' = IF k < Len(roster) THEN "rename" ELSE "make"
          /\ UNCHANGED <<err, run, same, prev, args, html, archive, secret, ifnam,
                         ofnam, verbose, soup, course_name, rows, o, model_id,
                         deck, media_files>>

\* Lines 177-199: the model and the deck, both identified by model_id.
\* The interpreter drew the secret of its str hash as it started; hash()
\* here is the first statement to read it, so the draw is made here.
MakeDeck ==
  /\ pc = "make"
  /\ secret' \in 1..MaxSeed
  /\ model_id' = compute_model_id(secret', course_name)
  /\ deck' = [deck_id |-> model_id', name |-> course_name, notes |-> <<>>]
  /\ media_files' = <<>>
  /\ k' = 1
  /\ pc' = IF roster = <<>> THEN "write" ELSE "note"
  /\ UNCHANGED <<err, env, ifnam, ofnam, verbose, soup, course_name,
                 rows, roster, o>>

\* AddNote that skips a record whose guid the deck already holds: C2 is
\* checked against it.
AddNote_SkipKnownGuid ==
  /\ pc = "note"
  /\ LET note == MyNote(course_name, roster[k])
         known == \E i \in DOMAIN deck.notes : deck.notes[i].guid = note.guid
     IN /\ deck' = IF known THEN deck ELSE [deck EXCEPT !.notes = Append(@, note)]
        /\ media_files' = IF known THEN media_files
                          ELSE Append(media_files, text(roster[k][K_photo_renamed]))
  /\ k' = IF k < Len(roster) THEN k + 1 ELSE 1
  /\ pc' = IF k < Len(roster) THEN "note" ELSE "write"
  /\ UNCHANGED <<err, env, secret, ifnam, ofnam, verbose, soup, course_name,
                 rows, roster, o, model_id>>

\* Lines 200-213 for record k
AddNote ==
  /\ pc = "note"
  /\ deck' = [deck EXCEPT !.notes = Append(@, MyNote(course_name, roster[k]))]
  /\ media_files' = Append(media_files, text(roster[k][K_photo_renamed]))
  /\ k' = IF k < Len(roster) THEN k + 1 ELSE 1
  /\ pc' = IF k < Len(roster) THEN "note" ELSE "write"
  /\ UNCHANGED <<err, env, secret, ifnam, ofnam, verbose, soup, course_name,
                 rows, roster, o, model_id>>

\* Lines 214-217: the deck, its model and the media, in one archive file
\* that replaces the one at that path.
package == [deck |-> deck, model_id |-> model_id, media_files |-> media_files]

WritePackage ==
  /\ pc = "write"
  /\ archive' = [p \in DOMAIN archive \cup {ofnam} |->
                   IF p = ofnam THEN package ELSE archive[p]]
  /\ pc' = "done"
  /\ UNCHANGED <<err, run, same, prev, args, html, files, proc>>

\* The pages a second run may find where the first found its page: the
\* same page, the page of another course, a page without the course link.
Resaved(d) ==
  { d, [d EXCEPT !.links = <<Course2>>], [d EXCEPT !.links = <<Help>>] }

\* The program is run again, by a new process, in the directory the first
\* run left.
Rerun ==
  /\ pc = "done"
  /\ run + 1 \in Runs
  /\ run' = run + 1
  /\ \E d \in Resaved(html[ifnam]) :
       /\ html' = [html EXCEPT ![ifnam] = d]
       /\ same' = (d = html[ifnam])
  /\ prev' = [done |-> TRUE, model_id |-> model_id, deck |-> deck,
              media_files |-> media_files, archive |-> archive]
  /\ pc' = "start"
  /\ err' = NoError
  /\ secret' = 0
  /\ ifnam' = <<>>
  /\ ofnam' = <<>>
  /\ verbose' = FALSE
  /\ soup' = NoSoup
  /\ course_name' = <<>>
  /\ rows' = <<>>
  /\ roster' = <<>>
  /\ k' = 0
  /\ o' = SimpleNamespace
  /\ model_id' = 0
  /\ deck' = NoDeck
  /\ media_files' = <<>>
  /\ UNCHANGED <<args, files, archive>>

Next ==
  \/ Argparse
  \/ ReadOpen
  \/ ReadCourse
  \/ ReadTable
  \/ ExtractRow
  \/ NormalizeRow
  \/ RenamePhoto
  \/ MakeDeck
  \/ AddNote
  \/ WritePackage
  \/ Rerun

Spec == Init /\ [][Next]_vars

\* --------------------------------------------------------- claims

\* The page the process is given, and the raw text of a field of a row.
InputPath == IF args.input = <<>> THEN DefaultInput ELSE args.input

RawField(r, key) == text(extract(r).o[key])

Guids(d) == [i \in DOMAIN d.notes |-> d.notes[i].guid]

\* C1: two runs of the program on the same page give the same model
\* identifier, the same deck identifier and the same card identifiers.
C1_SameIdentifiersOnRerun ==
  (run = 2 /\ same /\ pc = "done") =>
     /\ model_id = prev.model_id
     /\ deck.deck_id = prev.deck.deck_id
     /\ Guids(deck) = Guids(prev.deck)

\* What the page must hold for the program to accept it: the title, a
\* course link, the table, and in every row a photo that was saved and
\* the five labels with values of the expected shape.
RequiredKeys == {K_name, K_emailaddress, K_classification, K_primarymajor, K_advisor}

Info(r) == SelectSeq(r.tds[2], NotBr)

Labels(r) ==
  { tag_key(Info(r)[j].contents[1]) :
      j \in { x \in DOMAIN Info(r) : x % 2 = 1 /\ ~IsStr(Info(r)[x]) /\ Info(r)[x].contents # <<>> } }

\* The value that follows the last label of that key.
ValueOf(r, key) ==
  LET js == { x \in DOMAIN Info(r) :
                /\ x % 2 = 1
                /\ ~IsStr(Info(r)[x])
                /\ Info(r)[x].contents # <<>>
                /\ tag_key(Info(r)[x].contents[1]) = key }
      j == CHOOSE x \in js : \A y \in js : y <= x
  IN Info(r)[j + 1]

\* The rows laid out as the page lays rows out: a photo element, the data
\* cell, labels and values in turn.
WellFormedRow(r) ==
  /\ r.img # <<>>
  /\ Len(r.tds) >= 2
  /\ LET info == Info(r) IN
       /\ Len(info) % 2 = 0
       /\ \A j \in DOMAIN info :
            j % 2 = 1 => ~IsStr(info[j]) /\ info[j].contents # <<>>

CompleteRow(r) ==
  /\ WellFormedRow(r)
  /\ RequiredKeys \subseteq Labels(r)
  /\ K_photo \notin Labels(r)
  /\ IsStr(ValueOf(r, K_name))
  /\ contains(text(ValueOf(r, K_name)), <<",">>)
  /\ IsStr(ValueOf(r, K_advisor))
  /\ IsStr(ValueOf(r, K_primarymajor))
  /\ strip(text(ValueOf(r, K_primarymajor))) # <<>>
  /\ ~IsStr(ValueOf(r, K_emailaddress))
  /\ ValueOf(r, K_emailaddress).contents # <<>>

CompleteRows == { r \in Rows : CompleteRow(r) }

ValidRow(r) ==
  /\ r \in CompleteRows
  /\ unquote(r.img[1]) \in DOMAIN files

ValidPage(d) ==
  /\ d.title # <<>>
  /\ strip(d.title[1]) = ExpectedTitle
  /\ \E i \in DOMAIN d.links : IsCourseLink(d.links[i])
  /\ d.tables # <<>>
  /\ \A i \in DOMAIN d.tables[1] : ValidRow(d.tables[1][i])

ValidInput == InputPath \in DOMAIN html /\ ValidPage(html[InputPath])

PageRows == html[InputPath].tables[1]

\* C2: on a valid page with N rows the run does not fail, each loop it is
\* in has a row or a record to work on, and the deck it writes holds N
\* cards, the i-th made from the i-th row, each with a
\* prompt, a photo embed and an answer that are not empty; with N = 0 the
\* archive is written with a deck of no card.
C2_ValidPageGivesNCards ==
  ValidInput =>
    /\ pc # "failed"
    /\ pc \in {"row", "normalize"} => k \in DOMAIN rows
    /\ pc \in {"rename", "note"} => k \in DOMAIN roster
    /\ pc = "done" =>
         /\ ofnam \in DOMAIN archive
         /\ archive[ofnam].deck = deck
         /\ Len(deck.notes) = Len(PageRows)
         /\ \A i \in DOMAIN deck.notes :
              /\ deck.notes[i].fields[1] # <<>>
              /\ deck.notes[i].fields[2] # <<>>
              /\ deck.notes[i].fields[3] # <<>>
              /\ roster[i][K_photo] = Str(unquote(PageRows[i].img[1]))
              /\ deck.notes[i].fields[2] =
                   <<"<","i","m","g"," ","s","r","c","=","\"">> \o newfnam(normalize(extract(PageRows[i]).o).o) \o <<"\"",">">>
              /\ contains(deck.notes[i].fields[3],
                          split_ws(text(ValueOf(PageRows[i], K_primarymajor)))[1])

C2_TwoCardsWritten ==
  /\ ValidInput
  /\ pc = "done"
  /\ Len(PageRows) = 2
  /\ Len(archive[ofnam].deck.notes) = 2
  /\ PageRows[1] # PageRows[2]

\* Every row has been extracted, normalized and had its photo copied.
AllRowsProcessed ==
  /\ soup.tables # <<>>
  /\ Len(roster) = Len(soup.tables[1])
  /\ \A i \in DOMAIN roster :
       /\ {K_photo, K_name, K_lname, K_fname, K_email, K_major, K_year, K_advisor,
           K_photo_renamed} \subseteq DOMAIN roster[i]
       /\ text(roster[i][K_photo_renamed]) \in DOMAIN files

\* C3: the archive is written only by the last step of a run in which
\* every row was extracted, normalized and had its photo copied; a step
\* that fails writes nothing, comes before the write, and ends the run.
C3_NoPartialSuccess ==
  [][ /\ (archive' # archive \/ pc' = "done") =>
           (pc = "write" /\ err = NoError /\ AllRowsProcessed)
      /\ pc' = "failed" => (archive' = archive /\ pc \notin {"write", "done"})
      /\ pc # "failed" ]_vars

C3_FailedAfterCopyingAPhoto ==
  /\ pc = "failed"
  /\ err.type = "FileNotFoundError"
  /\ k = 2
  /\ Len(roster) = 2
  /\ has(roster[1], K_photo_renamed)
  /\ text(roster[1][K_photo_renamed]) \in DOMAIN files
  /\ archive = <<>>

\* C4: the course identifier is derived only from a page with exactly one
\* hyperlink that holds the mailing-list marker; with none, or with two
\* or more, the run fails before it derives one.
C4_ExactlyOneCourseLink ==
  (pc \notin {"start", "open", "course", "failed"} \/ course_name # <<>>) =>
     Len(course_links(soup)) = 1

\* The cards of the deck being built and of the deck the first run wrote:
\* the course, the renamed photo, the answer and the identifier of each.
CardsOf(d, media) ==
  { [course |-> d.name, photo |-> media[i], answer |-> d.notes[i].fields[3],
     guid |-> d.notes[i].guid] :
      i \in DOMAIN d.notes \cap DOMAIN media }

Cards == CardsOf(deck, media_files) \cup CardsOf(prev.deck, prev.media_files)

\* C5: two cards, of one run or of two, have the same identifier exactly
\* when they have the same course identifier and the same renamed photo
\* path, whatever their answers.
C5_GuidFromPromptAndPhoto ==
  \A x \in Cards, y \in Cards :
     (x.guid = y.guid) <=> (x.course = y.course /\ x.photo = y.photo)

C5_SameGuidOtherAnswerAndOtherCourseOtherGuid ==
  /\ \E x \in Cards, y \in Cards :
        x.guid = y.guid /\ x.answer # y.answer
  /\ \E x \in Cards, y \in Cards :
        x.photo = y.photo /\ x.course # y.course /\ x.guid # y.guid

\* C6: the raw name "Smith, Alice" gives lname "Smith", fname "Alice" and
\* name "Alice Smith", and no normalized name starts or ends with
\* whitespace.
C6_NameNormalized ==
  \A i \in DOMAIN roster :
     /\ RawField(rows[i], K_name) = <<"S","m","i","t","h",","," ","A","l","i","c","e">> =>
          /\ text(roster[i][K_lname]) = <<"S","m","i","t","h">>
          /\ text(roster[i][K_fname]) = <<"A","l","i","c","e">>
          /\ text(roster[i][K_name]) = <<"A","l","i","c","e"," ","S","m","i","t","h">>
     /\ \A key \in {K_lname, K_fname, K_name} :
          strip(text(roster[i][key])) = text(roster[i][key])

\* "photo-<lastname>-<firstname>.jpg" of a raw "Last, First" name: lower
\* case, the spaces inside a name as hyphens, one hyphen between the two.
ExpectedPhotoName(raw) ==
  LET parts == split(raw, ",")
  IN <<"p","h","o","t","o","-">> \o replace(lower(strip(parts[1])), " ", <<"-">>) \o <<"-">>
       \o replace(lower(strip(parts[2])), " ", <<"-">>) \o <<".","j","p","g">>

\* C7: every record's renamed photo is "photo-<lastname>-<firstname>.jpg"
\* ("DelaCruz, Maria" gives "photo-delacruz-maria.jpg"), copied from the
\* percent-decoded image reference of its row.
C7_PhotoRenamed ==
  \A i \in DOMAIN roster :
     has(roster[i], K_photo_renamed) =>
       /\ text(roster[i][K_photo_renamed]) = ExpectedPhotoName(RawField(rows[i], K_name))
       /\ RawField(rows[i], K_name) = <<"D","e","l","a","C","r","u","z",","," ","M","a","r","i","a">> =>
            text(roster[i][K_photo_renamed]) = <<"p","h","o","t","o","-","d","e","l","a","c","r","u","z","-","m","a","r","i","a",".","j","p","g">>
       /\ text(roster[i][K_photo]) = unquote(rows[i].img[1])

\* C8: the raw advisor "Jones, Bob" gives "Bob Jones" and "Jones, Bob,
\* Carol" gives "Carol Bob Jones".
C8_AdvisorNormalized ==
  \A i \in DOMAIN roster :
     /\ RawField(rows[i], K_advisor) = <<"J","o","n","e","s",","," ","B","o","b">> =>
          text(roster[i][K_advisor]) = <<"B","o","b"," ","J","o","n","e","s">>
     /\ RawField(rows[i], K_advisor) = <<"J","o","n","e","s",","," ","B","o","b",","," ","C","a","r","o","l">> =>
          text(roster[i][K_advisor]) = <<"C","a","r","o","l"," ","B","o","b"," ","J","o","n","e","s">>

\* The fields the normalizer reads, in the order it reads them, and the
\* first of them that a row has no label for.
ReadOrder == <<K_advisor, K_emailaddress, K_name, K_primarymajor, K_classification>>

MissingFields(r) == { j \in DOMAIN ReadOrder : ReadOrder[j] \notin Labels(r) }

FirstMissing(r) ==
  ReadOrder[CHOOSE j \in MissingFields(r) : \A x \in MissingFields(r) : j <= x]

\* The rows, laid out as the page lays rows out, that have no label for
\* some field the normalizer reads.
Lacking == { r \in Rows : WellFormedRow(r) /\ MissingFields(r) # {} }

FirstMissingOf == [r \in Lacking |-> FirstMissing(r)]

LabelsOf == [r \in Rows |-> IF WellFormedRow(r) THEN Labels(r) ELSE {}]

LastCopiedTo(p) ==
  CHOOSE i \in DOMAIN roster :
     /\ has(roster[i], K_photo_renamed)
     /\ text(roster[i][K_photo_renamed]) = p
     /\ \A j \in DOMAIN roster :
          (has(roster[j], K_photo_renamed) /\ text(roster[j][K_photo_renamed]) = p)
             => j <= i

\* C10: in one run two cards have the same identifier exactly when their
\* renamed photo paths are equal; records with the same renamed path
\* share one file, which holds the photo of the last of them; the deck
\* holds one note and one media entry per record, the i-th media entry
\* being the path the i-th card refers to.
C10_OneNoteAndMediaEntryPerRecord ==
  /\ pc \in {"write", "done"} =>
       /\ Len(deck.notes) = Len(roster)
       /\ Len(media_files) = Len(roster)
  /\ Len(deck.notes) = Len(media_files)
  /\ \A i \in DOMAIN deck.notes :
       /\ media_files[i] = text(roster[i][K_photo_renamed])
       /\ deck.notes[i].fields[2] = <<"<","i","m","g"," ","s","r","c","=","\"">> \o media_files[i] \o <<"\"",">">>
       /\ \A j \in DOMAIN deck.notes :
            (deck.notes[i].guid = deck.notes[j].guid) <=> (media_files[i] = media_files[j])
  /\ \A i \in DOMAIN roster :
       has(roster[i], K_photo_renamed) =>
          LET p == text(roster[i][K_photo_renamed])
          IN /\ p \in DOMAIN files
             /\ files[p] = SavedPhotos[text(roster[LastCopiedTo(p)][K_photo])]

C10_TwoRecordsShareAPhotoFile ==
  /\ pc = "done"
  /\ \E i \in DOMAIN roster, j \in DOMAIN roster :
       /\ i < j
       /\ media_files[i] = media_files[j]
       /\ roster[i][K_photo] # roster[j][K_photo]
       /\ deck.notes[i].guid = deck.notes[j].guid
       /\ deck.notes[i].fields[3] # deck.notes[j].fields[3]
       /\ files[media_files[i]] = SavedPhotos[text(roster[j][K_photo])]
       /\ files[media_files[i]] # SavedPhotos[text(roster[i][K_photo])]

====
